---------------------------- MODULE Spec2Model ----------------------------
(***************************************************************************)
(* Model of src/ws_server/pdi.py: the grass / soil classification worker.  *)
(*                                                                         *)
(* procesar_imagen is modelled from the illumination-corrected image       *)
(* (img_corregida) onwards: a decodable payload is described by the        *)
(* corrected image it leads to.  Pixels are 8-bit, masks are 8-bit grids,  *)
(* and every OpenCV call is modelled by what it computes on those grids.   *)
(* Fractions are kept exact, in hundredths of a percent.                   *)
(***************************************************************************)
EXTENDS Integers, Sequences, FiniteSets, TLC

\* ------------------------------------------------------------------ bounds
\* Widest image (in pixels) drawn for the pipeline specification.
MaxAncho == 14
\* Requests the request loop reads before its input stays empty.
MaxPeticiones == 3

\* ---------------------------------------------------------------- state
VARIABLES
    pc,          \* where main is: leer, procesar, escribir, flush, interno, ...
    line,        \* main's line
    resultado,   \* main's resultado
    start_time,  \* main's start_time
    excepcion,   \* the exception being handled
    reloj,       \* the clock
    entradas,    \* the request lines read so far
    stdout,      \* the calls of sys.stdout.write, with what each delivered
    stderr,      \* the calls of sys.stderr.write, with what each delivered
    historial,   \* the returns of procesar_imagen
    fn_args,     \* the arguments of the function under study
    fn_ret       \* its return value

vars == <<pc, line, resultado, start_time, excepcion, reloj, entradas, stdout,
          stderr, historial, fn_args, fn_ret>>

varsMain == <<pc, line, resultado, start_time, excepcion, reloj, entradas,
              stdout, stderr, historial>>

Ninguno == [tipo |-> "None"]

\* ------------------------------------------------------- integer helpers
Max2(a, b) == IF a >= b THEN a ELSE b
Min2(a, b) == IF a <= b THEN a ELSE b
Abs(x) == IF x < 0 THEN -x ELSE x

\* n / d rounded to the nearest integer, ties to the even one (n >= 0, d > 0):
\* cvRound, saturate_cast and Python's round all round this way.
RedondeoPar(n, d) ==
    LET q == n \div d
        r == n % d
    IN  IF 2 * r > d THEN q + 1
        ELSE IF 2 * r < d THEN q
        ELSE IF q % 2 = 0 THEN q ELSE q + 1

RECURSIVE And8(_, _, _)
\* Bitwise AND of the low `bits` bits of a and b.
And8(a, b, bits) ==
    IF bits = 0 THEN 0
    ELSE (a % 2) * (b % 2) + 2 * And8(a \div 2, b \div 2, bits - 1)

\* cv2.bitwise_and / cv2.bitwise_not on one 8-bit mask value.
bitwise_and(a, b) == And8(a, b, 8)
bitwise_not(a) == 255 - a

\* --------------------------------------------------------------- pixels
\* The colours the modelled images are painted with, as (b, g, r) triples of
\* img_corregida.
Colores == {"negro", "marron", "verde", "oliva"}

BGR(c) ==
    CASE c = "negro"  -> <<0, 0, 0>>
      [] c = "marron" -> <<40, 70, 120>>
      [] c = "verde"  -> <<40, 200, 100>>
      [] c = "oliva"  -> <<36, 131, 150>>

\* cv2.cvtColor(COLOR_BGR2HSV) on one 8-bit pixel: the fixed-point hue and
\* saturation of OpenCV (hsv_shift = 12, hue range 180).
HsvShift == 12
SDiv(i) == IF i = 0 THEN 0 ELSE RedondeoPar(255 * (2 ^ HsvShift), i)
HDiv(i) == IF i = 0 THEN 0 ELSE RedondeoPar(180 * (2 ^ HsvShift), 6 * i)

BGR2HSV(p) ==
    LET b == p[1]
        g == p[2]
        r == p[3]
        v == Max2(b, Max2(g, r))
        vmin == Min2(b, Min2(g, r))
        diff == v - vmin
        s == (diff * SDiv(v) + 2 ^ (HsvShift - 1)) \div (2 ^ HsvShift)
        h0 == IF v = r THEN g - b
              ELSE IF v = g THEN b - r + 2 * diff
              ELSE r - g + 4 * diff
        h1 == (h0 * HDiv(diff) + 2 ^ (HsvShift - 1)) \div (2 ^ HsvShift)
        h == IF h1 < 0 THEN h1 + 180 ELSE h1
    IN  <<h, s, v>>

\* --------------------------------------------------------------- grids
\* An image is [alto, ancho, px], px a function over Pixeles(alto, ancho).
Pixeles(alto, ancho) == (1 .. alto) \X (1 .. ancho)

\* A grid held as an explicit table of its values.
Tabla(f) == f @@ << >>

\* F applied to the value of x, computed once.
Sea(x, F(_)) == CHOOSE y \in {F(v) : v \in {x}} : TRUE

\* cv2.countNonZero
countNonZero(mask) == Cardinality({p \in DOMAIN mask : mask[p] # 0})

\* cv2.equalizeHist on the value channel: the lookup table built from the
\* cumulative histogram; a single-valued channel is returned as it is.
equalizeHist(v) ==
    LET total == Cardinality(DOMAIN v)
        vals == {v[p] : p \in DOMAIN v}
        vmin == CHOOSE x \in vals : \A y \in vals : x <= y
        nmin == Cardinality({p \in DOMAIN v : v[p] = vmin})
        sum(x) == Cardinality({p \in DOMAIN v : v[p] > vmin /\ v[p] <= x})
        lut(x) == IF x = vmin THEN 0
                  ELSE Min2(255, RedondeoPar(sum(x) * 255, total - nmin))
    IN  IF nmin = total THEN v ELSE Tabla([p \in DOMAIN v |-> lut(v[p])])

\* cv2.inRange on an hsv pixel: 255 when every channel lies in [lo, hi].
inRange(hsv, lo, hi) ==
    IF \A k \in 1 .. 3 : lo[k] <= hsv[k] /\ hsv[k] <= hi[k] THEN 255 ELSE 0

lower_green == <<25, 5, 5>>
upper_green == <<100, 255, 255>>
lower_brown == <<5, 40, 20>>
upper_brown == <<25, 200, 150>>
lower_red1 == <<0, 50, 20>>
upper_red1 == <<10, 200, 120>>
lower_red2 == <<170, 50, 20>>
upper_red2 == <<180, 200, 120>>

\* The vegetation index test of one (b, g, r) pixel:
\* (g - r) / (g + r - b) > 0.03, the denominator 1e-4 where it is 0.
VariPositivo(p) ==
    LET num == p[2] - p[3]
        den == p[2] + p[3] - p[1]
    IN  IF den = 0 THEN num > 0
        ELSE IF den > 0 THEN 100 * num > 3 * den
        ELSE 100 * num < 3 * den

\* The 5x5 neighbourhood of a pixel that lies inside the image: morphology
\* ignores what falls outside (the default border value).
Vecindad(p, alto, ancho) ==
    (Max2(1, p[1] - 2) .. Min2(alto, p[1] + 2))
        \X (Max2(1, p[2] - 2) .. Min2(ancho, p[2] + 2))

\* cv2.erode / cv2.dilate with the 5x5 kernel of ones.
erode(mask, alto, ancho) ==
    Tabla([p \in DOMAIN mask |->
        IF \A q \in Vecindad(p, alto, ancho) : mask[q] # 0 THEN 255 ELSE 0])

dilate(mask, alto, ancho) ==
    Tabla([p \in DOMAIN mask |->
        IF \E q \in Vecindad(p, alto, ancho) : mask[q] # 0 THEN 255 ELSE 0])

\* cv2.morphologyEx(MORPH_OPEN) and (MORPH_CLOSE).
MORPH_OPEN(mask, alto, ancho) == dilate(erode(mask, alto, ancho), alto, ancho)
MORPH_CLOSE(mask, alto, ancho) == erode(dilate(mask, alto, ancho), alto, ancho)

RECURSIVE Reflejar(_, _)
\* BORDER_REFLECT_101: the index (1-based) that stands for i outside 1..len.
Reflejar(i, len) ==
    IF len = 1 THEN 1
    ELSE IF i < 1 THEN Reflejar(2 - i, len)
    ELSE IF i > len THEN Reflejar(2 * len - i, len)
    ELSE i

\* The 5-tap Gaussian kernel of sigma 0, in 1/256ths: (1, 4, 6, 4, 1) / 16.
Nucleo(d) == CASE Abs(d) = 2 -> 16 [] Abs(d) = 1 -> 64 [] OTHER -> 96

\* cv2.GaussianBlur(mask, (5, 5), 0) on an 8-bit grid: the separable kernel in
\* fixed point, rounded once at the end.
GaussianBlur(mask, alto, ancho) ==
    LET suma(p) ==
            LET fila(dr) ==
                    LET r == Reflejar(p[1] + dr, alto)
                        term(dc) == Nucleo(dc) * mask[<<r, Reflejar(p[2] + dc, ancho)>>]
                    IN  term(-2) + term(-1) + term(0) + term(1) + term(2)
            IN  Nucleo(-2) * fila(-2) + Nucleo(-1) * fila(-1) + Nucleo(0) * fila(0)
                + Nucleo(1) * fila(1) + Nucleo(2) * fila(2)
    IN  Tabla([p \in DOMAIN mask |-> (suma(p) + 32768) \div 65536])

\* ------------------------------------------------- connected components
RECURSIVE Crecer(_, _, _)
\* The 8-connected component grown from the pixels C, whose newest pixels are
\* F, within the pixel set S.
Crecer(C, F, S) ==
    LET N == {q \in S \ C :
                \E p \in F : Abs(q[1] - p[1]) <= 1 /\ Abs(q[2] - p[2]) <= 1}
    IN  IF N = {} THEN C ELSE Crecer(C \cup N, N, S)

RECURSIVE Etiquetar(_)
\* cv2.connectedComponentsWithStats(mask, 8): the components of the nonzero
\* pixels S, each a set of pixels (its area is its cardinality).
Etiquetar(S) ==
    IF S = {} THEN {}
    ELSE LET p == CHOOSE q \in S : TRUE
             C == Crecer({p}, {p}, S)
         IN  {C} \cup Etiquetar(S \ C)

connectedComponents(mask) == Etiquetar({p \in DOMAIN mask : mask[p] # 0})

\* A threshold is the exact fraction n / d; Menor(a, m) is a < n / d.
\* Faulty variant: a component of exactly min_area pixels is removed too.
MenorOIgual(area, min_area) == area * min_area.d <= min_area.n

Menor(area, min_area) == area * min_area.d < min_area.n

eliminar_pequenos_objetos(mask, min_area) ==
    LET labels == connectedComponents(mask)
        borrados == UNION {C \in labels : Menor(Cardinality(C), min_area)}
    IN  Tabla([p \in DOMAIN mask |-> IF p \in borrados THEN 0 ELSE mask[p]])

\* The thresholds of the two call sites: total_pixels * 0.001 and * 0.005.
MinAreaPasto(total_pixels) == [n |-> total_pixels, d |-> 1000]
MinAreaTierra(total_pixels) == [n |-> 5 * total_pixels, d |-> 1000]

\* ------------------------------------------------------------ fractions
\* A percentage is the exact fraction n / d; entero marks a Python int.
Entero(k) == [n |-> k, d |-> 1, entero |-> TRUE]

\* Faulty variant: only the saturated pixels are counted.
porcentaje_saturados(mask, total_pixels) ==
    IF total_pixels = 0 THEN Entero(0)
    ELSE [n |-> Cardinality({p \in DOMAIN mask : mask[p] = 255}) * 100,
          d |-> total_pixels, entero |-> FALSE]

porcentaje_mascara(mask, total_pixels) ==
    IF total_pixels = 0 THEN Entero(0)
    ELSE [n |-> countNonZero(mask) * 100, d |-> total_pixels, entero |-> FALSE]

\* 100 - porc_pasto - porc_tierra
Resto(p, t) ==
    [n |-> 100 * p.d * t.d - p.n * t.d - t.n * p.d, d |-> p.d * t.d,
     entero |-> p.entero /\ t.entero]

\* max(0, x): the int 0 unless x is greater.
Max0(x) == IF x.n > 0 THEN x ELSE Entero(0)

\* round(x, 2) for x >= 0, in hundredths.
round2(x) == [cent |-> RedondeoPar(x.n * 100, x.d), entero |-> x.entero]

\* ------------------------------------------------------------- encoding
\* base64.b64encode: four characters for every three bytes, padded.
Base64Len(bytes) == 4 * ((bytes + 2) \div 3)

\* cv2.imencode('.jpg', img_final, [IMWRITE_JPEG_QUALITY, calidad]): the
\* composite's detalle is its encoded size at quality 85, and the size scales
\* with the quality.
imencode(img_final, calidad) ==
    [calidad |-> calidad, bytes |-> (img_final.detalle * calidad) \div 85]

\* f"data:image/jpeg;base64,{...}": the 23-character header and the base64 text.
DataUri(buffer) ==
    [calidad |-> buffer.calidad, largo |-> 23 + Base64Len(buffer.bytes)]

RECURSIVE Cifras(_)
\* Decimal digits of k >= 0.
Cifras(k) == IF k < 10 THEN 1 ELSE 1 + Cifras(k \div 10)

\* Characters json.dumps writes for a rounded percentage: an int as its
\* digits, a float with one or two decimals.
NumChars(x) ==
    IF x.entero THEN Cifras(x.cent \div 100)
    ELSE Cifras(x.cent \div 100) + 1 + (IF x.cent % 10 = 0 THEN 1 ELSE 2)

\* len(json.dumps(response)): 70 characters of keys and punctuation, and the
\* five values.
JsonLen(response) ==
    70 + NumChars(response.pasto) + NumChars(response.tierra)
       + NumChars(response.otros) + response.overlay_image.largo
       + response.timestamp.cifras

\* Faulty variant: a response of exactly 1,000,000 characters is re-encoded too.
ensamblar_umbral_inclusivo(porc_pasto, porc_tierra, porc_otros, img_final, ahora) ==
    Sea([pasto |-> round2(porc_pasto),
         tierra |-> round2(porc_tierra),
         otros |-> round2(porc_otros),
         overlay_image |-> DataUri(imencode(img_final, 85)),
         timestamp |-> ahora],
        LAMBDA response :
            IF JsonLen(response) >= 1000000
            THEN [response EXCEPT
                    !.overlay_image = DataUri(imencode(img_final, 65))]
            ELSE response)

\* Lines 123-143: the response and its size check.
ensamblar(porc_pasto, porc_tierra, porc_otros, img_final, ahora) ==
    Sea([pasto |-> round2(porc_pasto),
         tierra |-> round2(porc_tierra),
         otros |-> round2(porc_otros),
         overlay_image |-> DataUri(imencode(img_final, 85)),
         timestamp |-> ahora],
        LAMBDA response :
            IF JsonLen(response) > 1000000
            THEN [response EXCEPT
                    !.overlay_image = DataUri(imencode(img_final, 65))]
            ELSE response)

\* ------------------------------------------------------------- decoding
\* A request line is [cabecera, b64]: an optional data-URI header before the
\* last comma, and the base64 text [relleno_ok, bytes] after it.
UltimoTrozo(texto) == texto.b64

\* Faulty variant: a payload that decodes to no image is taken as one black
\* pixel instead of raising.
DecodificarSinNulo(base64_data_str) ==
    LET b64 == UltimoTrozo(base64_data_str)
    IN  IF ~b64.relleno_ok THEN [ok |-> FALSE, motivo |-> "binascii.Error"]
        ELSE IF b64.bytes.tipo = "vacio" THEN [ok |-> FALSE, motivo |-> "cv2.error"]
        ELSE IF b64.bytes.tipo = "basura"
        THEN [ok |-> TRUE,
              img |-> [alto |-> 1, ancho |-> 1, detalle |-> 900,
                       px |-> Tabla([p \in Pixeles(1, 1) |-> "negro"])]]
        ELSE [ok |-> TRUE, img |-> b64.bytes.img]

\* Lines 11-18: every failure of the decoding block becomes one ValueError.
Decodificar(base64_data_str) ==
    LET b64 == UltimoTrozo(base64_data_str)
    IN  IF ~b64.relleno_ok THEN [ok |-> FALSE, motivo |-> "binascii.Error"]
        ELSE IF b64.bytes.tipo = "vacio" THEN [ok |-> FALSE, motivo |-> "cv2.error"]
        ELSE IF b64.bytes.tipo = "basura" THEN [ok |-> FALSE, motivo |-> "Imagen nula"]
        ELSE [ok |-> TRUE, img |-> b64.bytes.img]

\* ------------------------------------------------------------- pipeline
\* Lines 33-36: the hsv image with its value channel equalized.
HsvEcualizado(img) ==
    Sea(Tabla([p \in Pixeles(img.alto, img.ancho) |-> BGR2HSV(BGR(img.px[p]))]),
        LAMBDA hsv0 :
    Sea(equalizeHist(Tabla([p \in DOMAIN hsv0 |-> hsv0[p][3]])), LAMBDA v :
        Tabla([p \in DOMAIN hsv0 |-> <<hsv0[p][1], hsv0[p][2], v[p]>>])))

\* Lines 57-61: the union of the three soil ranges.
EsTierra(hsv) ==
    \/ inRange(hsv, lower_brown, upper_brown) # 0
    \/ inRange(hsv, lower_red1, upper_red1) # 0
    \/ inRange(hsv, lower_red2, upper_red2) # 0

\* Lines 33-61 and 65-71: the three raw masks of the corrected image.
MascarasCrudas(img) ==
    Sea(HsvEcualizado(img), LAMBDA hsv :
        [mascara_pasto_color |->
            Tabla([p \in DOMAIN hsv |-> inRange(hsv[p], lower_green, upper_green)]),
         mascara_tierra_color |->
            Tabla([p \in DOMAIN hsv |-> IF EsTierra(hsv[p]) THEN 255 ELSE 0]),
         mascara_vegetacion_vi |->
            Tabla([p \in DOMAIN hsv |->
                IF VariPositivo(BGR(img.px[p])) THEN 255 ELSE 0])])

\* Faulty variant: the colour cue alone decides grass.
FusionPastoSoloColor(pasto_color, vegetacion_vi) == pasto_color

\* Lines 80-81: the fusion of the raw masks.
FusionPasto(pasto_color, vegetacion_vi) ==
    Tabla([p \in DOMAIN pasto_color |->
        bitwise_and(pasto_color[p], vegetacion_vi[p])])

FusionTierra(tierra_color, pasto_final) ==
    Tabla([p \in DOMAIN tierra_color |->
        bitwise_and(tierra_color[p], bitwise_not(pasto_final[p]))])

\* Lines 89-93: the cleanup of the grass mask.
LimpiarPasto(mask, alto, ancho) ==
    Sea(MORPH_OPEN(mask, alto, ancho), LAMBDA abierta :
    Sea(MORPH_CLOSE(abierta, alto, ancho), LAMBDA cerrada :
    Sea(dilate(cerrada, alto, ancho), LAMBDA dilatada :
    Sea(eliminar_pequenos_objetos(dilatada, MinAreaPasto(alto * ancho)),
        LAMBDA sin_pequenos : GaussianBlur(sin_pequenos, alto, ancho)))))

\* Lines 96-99: the cleanup of the soil mask.
LimpiarTierra(mask, alto, ancho) ==
    Sea(MORPH_OPEN(mask, alto, ancho), LAMBDA abierta :
    Sea(MORPH_CLOSE(abierta, alto, ancho), LAMBDA cerrada :
    Sea(eliminar_pequenos_objetos(cerrada, MinAreaTierra(alto * ancho)),
        LAMBDA sin_pequenos : GaussianBlur(sin_pequenos, alto, ancho))))

\* Line 102: the soil mask and the complement of the grass mask, bit by bit.
Excluir(tierra, pasto) ==
    Tabla([p \in DOMAIN tierra |-> bitwise_and(tierra[p], bitwise_not(pasto[p]))])

\* Lines 80-102: the two final masks from the raw ones.
Mascaras(img, crudas) ==
    Sea(FusionPasto(crudas.mascara_pasto_color, crudas.mascara_vegetacion_vi),
        LAMBDA pasto_fusion :
    Sea(FusionTierra(crudas.mascara_tierra_color, pasto_fusion),
        LAMBDA tierra_fusion :
    Sea(LimpiarPasto(pasto_fusion, img.alto, img.ancho), LAMBDA pasto_final :
    Sea(LimpiarTierra(tierra_fusion, img.alto, img.ancho), LAMBDA tierra_limpia :
        [crudas |-> crudas,
         pasto_fusion |-> pasto_fusion,
         tierra_fusion |-> tierra_fusion,
         mascara_pasto_final |-> pasto_final,
         mascara_tierra_final |-> Excluir(tierra_limpia, pasto_final)]))))

\* Faulty variant: the pixel total is kept across requests and grows with
\* each result returned.
ResultadoAcumulado(m, total_pixels, img_final, ahora) ==
    Sea(porcentaje_mascara(m.mascara_pasto_final, total_pixels + Len(historial)),
        LAMBDA porc_pasto :
    Sea(porcentaje_mascara(m.mascara_tierra_final, total_pixels + Len(historial)),
        LAMBDA porc_tierra :
    Sea(Max0(Resto(porc_pasto, porc_tierra)), LAMBDA porc_otros :
        [ok |-> TRUE,
         total_pixels |-> total_pixels,
         mascaras |-> m,
         porc_pasto |-> porc_pasto,
         porc_tierra |-> porc_tierra,
         response |-> ensamblar(porc_pasto, porc_tierra, porc_otros,
                                img_final, ahora)])))

\* Lines 104-143: the percentages and the response.
Resultado(m, total_pixels, img_final, ahora) ==
    Sea(porcentaje_mascara(m.mascara_pasto_final, total_pixels), LAMBDA porc_pasto :
    Sea(porcentaje_mascara(m.mascara_tierra_final, total_pixels), LAMBDA porc_tierra :
    Sea(Max0(Resto(porc_pasto, porc_tierra)), LAMBDA porc_otros :
        [ok |-> TRUE,
         total_pixels |-> total_pixels,
         mascaras |-> m,
         porc_pasto |-> porc_pasto,
         porc_tierra |-> porc_tierra,
         response |-> ensamblar(porc_pasto, porc_tierra, porc_otros,
                                img_final, ahora)])))

\* procesar_imagen: the raised ValueError, or the locals at the return.
procesar_imagen(base64_data_str, ahora) ==
    Sea(Decodificar(base64_data_str), LAMBDA dec :
        IF ~dec.ok
        THEN [ok |-> FALSE, clase |-> "ValueError", motivo |-> dec.motivo]
        ELSE Sea(Mascaras(dec.img, MascarasCrudas(dec.img)), LAMBDA m :
                 Resultado(m, dec.img.alto * dec.img.ancho,
                           [detalle |-> dec.img.detalle], ahora)))

\* --------------------------------------------------------------- inputs
\* An image of `alto` equal rows made of runs of colours: tramos is a sequence
\* of <<colour, length>> pairs.
RECURSIVE ColorEn(_, _)
ColorEn(tramos, c) ==
    IF c <= Head(tramos)[2] THEN Head(tramos)[1]
    ELSE ColorEn(Tail(tramos), c - Head(tramos)[2])

RECURSIVE AnchoDe(_)
AnchoDe(tramos) == IF tramos = << >> THEN 0 ELSE Head(tramos)[2] + AnchoDe(Tail(tramos))

Imagen(alto, tramos, detalle) ==
    [alto |-> alto, ancho |-> AnchoDe(tramos),
     px |-> Tabla([p \in Pixeles(alto, AnchoDe(tramos)) |-> ColorEn(tramos, p[2])]),
     detalle |-> detalle]

\* A request line carrying the base64 text of `bytes`.
Linea(cabecera, relleno_ok, bytes) ==
    [cabecera |-> cabecera, b64 |-> [relleno_ok |-> relleno_ok, bytes |-> bytes]]

LineaImagen(cabecera, img) == Linea(cabecera, TRUE, [tipo |-> "imagen", img |-> img])

\* The runs of one, two and three colours, neighbours differing, that fill
\* the width w.
Tramos(w) ==
    {<<<<a, w>>>> : a \in Colores}
    \cup {<<<<a, i>>, <<b, w - i>>>> :
            <<a, b, i>> \in {t \in Colores \X Colores \X (1 .. w - 1) : t[1] # t[2]}}
    \cup {<<<<t[1], t[4]>>, <<t[2], t[5] - t[4]>>, <<t[3], w - t[5]>>>> :
            t \in {u \in Colores \X Colores \X Colores \X (1 .. w - 2) \X (2 .. w - 1) :
                     u[1] # u[2] /\ u[2] # u[3] /\ u[4] < u[5]}}

\* The images of the pipeline specification.
FamiliaImagenes(max_ancho) ==
    UNION {{Imagen(1, t, 900) : t \in Tramos(w)} : w \in 1 .. max_ancho}

\* time.time(): a reading of the clock, with the length of its repr.
Ahora(t) == [t |-> t, cifras |-> 17]

InitMain ==
    /\ pc = "leer"
    /\ line = Ninguno
    /\ resultado = Ninguno
    /\ start_time = 0
    /\ excepcion = Ninguno
    /\ reloj = 0
    /\ entradas = << >>
    /\ stdout = << >>
    /\ stderr = << >>
    /\ historial = << >>

\* ------------------------------------------- procesar_imagen on its own
InitImagen ==
    /\ InitMain
    /\ fn_args \in {[fn |-> "procesar_imagen", base64_data_str |-> LineaImagen(FALSE, img)] :
                        img \in FamiliaImagenes(MaxAncho)}
    /\ fn_ret = Ninguno

AplicarProcesarImagen ==
    /\ fn_args.fn = "procesar_imagen"
    /\ fn_ret = Ninguno
    /\ fn_ret' = procesar_imagen(fn_args.base64_data_str, Ahora(reloj))
    /\ UNCHANGED <<fn_args, varsMain>>

SpecImagen == InitImagen /\ [][AplicarProcesarImagen]_vars

\* ------------------------------- eliminar_pequenos_objetos on its own
\* Widest window of nonzero pixels drawn for the small-object specification.
MaxVentana == 3

\* Widths of the two-row masks: 200, 202, 400, 1000 and 1002 pixels in all.
AnchosElim == {100, 101, 200, 500, 501}

\* A two-row binary mask whose nonzero pixels are the set `puestos`.
MascaraCon(ancho, puestos) ==
    Tabla([p \in Pixeles(2, ancho) |-> IF p \in puestos THEN 255 ELSE 0])

InitElim ==
    /\ InitMain
    /\ fn_args \in {[fn |-> "eliminar_pequenos_objetos", alto |-> 2, ancho |-> w,
                     mask |-> MascaraCon(w, puestos), clase |-> c] :
                        w \in AnchosElim, c \in {"pasto", "tierra"},
                        puestos \in SUBSET ((1 .. 2) \X (1 .. MaxVentana))}
    /\ fn_ret = Ninguno

\* Lines 92 and 98: the call with the threshold of the mask's class.
AplicarEliminar ==
    /\ fn_args.fn = "eliminar_pequenos_objetos"
    /\ fn_ret = Ninguno
    /\ fn_ret' = eliminar_pequenos_objetos(
                    fn_args.mask,
                    IF fn_args.clase = "pasto"
                    THEN MinAreaPasto(fn_args.alto * fn_args.ancho)
                    ELSE MinAreaTierra(fn_args.alto * fn_args.ancho))
    /\ UNCHANGED <<fn_args, varsMain>>

SpecElim == InitElim /\ [][AplicarEliminar]_vars

\* ------------------------------------------- the result assembly on its own
\* Encoded sizes drawn for the assembly specification: 749900 bytes and the
\* MaxDetalle sizes after it, around the 1,000,000-character budget.
MaxDetalle == 12

\* A share of cp twelfths of the image, as porcentaje_mascara returns it.
Doceavos(cp) == [n |-> cp * 100, d |-> 12, entero |-> FALSE]

InitEnsamblar ==
    /\ InitMain
    /\ fn_args \in {[fn |-> "ensamblar",
                     porc_pasto |-> Doceavos(cp), porc_tierra |-> Doceavos(ct),
                     img_final |-> [detalle |-> 749900 + k],
                     ahora |-> [t |-> 1, cifras |-> cifras]] :
                        cp \in {0, 4, 6, 12}, ct \in {0, 4, 6, 12},
                        k \in 0 .. MaxDetalle, cifras \in 16 .. 18}
    /\ fn_ret = Ninguno

\* Lines 107 and 123-143.
AplicarEnsamblar ==
    /\ fn_args.fn = "ensamblar"
    /\ fn_ret = Ninguno
    /\ fn_ret' = ensamblar(fn_args.porc_pasto, fn_args.porc_tierra,
                           Max0(Resto(fn_args.porc_pasto, fn_args.porc_tierra)),
                           fn_args.img_final, fn_args.ahora)
    /\ UNCHANGED <<fn_args, varsMain>>

SpecEnsamblar == InitEnsamblar /\ [][AplicarEnsamblar]_vars

\* ------------------------------------------------------------ main loop
\* The request lines the loop is fed: undecodable ones and two images.
ImagenMixta == Imagen(1, <<<<"verde", 3>>, <<"negro", 1>>, <<"marron", 3>>>>, 900)
ImagenOscura == Imagen(2, <<<<"negro", 3>>>>, 900)

Cargas ==
    {Linea(FALSE, FALSE, [tipo |-> "basura"]),
     Linea(FALSE, TRUE, [tipo |-> "vacio"]),
     Linea(TRUE, TRUE, [tipo |-> "basura"]),
     LineaImagen(TRUE, ImagenMixta),
     LineaImagen(FALSE, ImagenOscura)}

Peticion == Len(entradas)

\* Line 160: readline raises, returns an empty line, or returns a request.
Leer ==
    /\ pc = "leer"
    /\ \/ /\ Len(entradas) < MaxPeticiones
          /\ \E l \in Cargas :
                /\ line' = l
                /\ entradas' = Append(entradas, l)
          /\ start_time' = reloj
          /\ pc' = "procesar"
          /\ UNCHANGED excepcion
       \/ /\ Len(entradas) < MaxPeticiones
          /\ entradas' = Append(entradas, Ninguno)
          /\ excepcion' = [clase |-> "UnicodeDecodeError", origen |-> "readline"]
          /\ pc' = "externo"
          /\ UNCHANGED <<line, start_time>>
       \/ /\ line' = [tipo |-> "vacia"]
          /\ pc' = "pausa_vacia"
          /\ UNCHANGED <<entradas, excepcion, start_time>>
    /\ UNCHANGED <<resultado, reloj, stdout, stderr, historial, fn_args, fn_ret>>

\* Lines 162-163: time.sleep(0.1); continue.
PausaVacia ==
    /\ pc = "pausa_vacia"
    /\ pc' = "leer"
    /\ UNCHANGED <<line, resultado, start_time, excepcion, reloj, entradas, stdout,
                   stderr, historial, fn_args, fn_ret>>

\* Lines 169-171: procesar_imagen returns or raises; a stage of a decodable
\* image may also raise (cv2.error, MemoryError).  The clock advances by one
\* reading while the image is processed.
Procesar ==
    /\ pc = "procesar"
    /\ \E dur \in {1} :
        \E r \in {procesar_imagen(line, Ahora(reloj + dur))} :
            /\ reloj' = reloj + dur
            /\ \/ /\ r.ok
                  /\ resultado' = r.response
                                    @@ [tiempo_procesamiento |-> reloj + dur - start_time]
                  /\ historial' = Append(historial,
                                         [peticion |-> Peticion, line |-> line,
                                          response |-> r.response])
                  /\ pc' = "escribir"
                  /\ UNCHANGED excepcion
               \/ /\ r.ok
                  /\ excepcion' = [clase |-> "cv2.error", origen |-> "etapa"]
                  /\ pc' = "interno"
                  /\ UNCHANGED <<resultado, historial>>
               \/ /\ ~r.ok
                  /\ excepcion' = [clase |-> r.clase, origen |-> "decodificacion",
                                   motivo |-> r.motivo]
                  /\ pc' = "interno"
                  /\ UNCHANGED <<resultado, historial>>
    /\ UNCHANGED <<line, start_time, entradas, stdout, stderr, fn_args, fn_ret>>

\* Lines 175-176: json.dumps and sys.stdout.write; the write accepts the
\* whole line, or raises having delivered less than the line ("parte").
Escribir ==
    /\ pc = "escribir"
    /\ \E entregado \in {"linea", "parte"} :
        /\ stdout' = Append(stdout, [peticion |-> Peticion, datos |-> resultado,
                                     entregado |-> entregado])
        /\ IF entregado = "linea"
           THEN pc' = "flush" /\ UNCHANGED excepcion
           ELSE /\ pc' = "interno"
                /\ excepcion' = [clase |-> "Exception", origen |-> "serializacion"]
    /\ UNCHANGED <<line, resultado, start_time, reloj, entradas, stderr, historial,
                   fn_args, fn_ret>>

\* Line 177: sys.stdout.flush() returns or raises.
Flush ==
    /\ pc = "flush"
    /\ \/ pc' = "leer" /\ UNCHANGED excepcion
       \/ /\ pc' = "interno"
          /\ excepcion' = [clase |-> "Exception", origen |-> "serializacion"]
    /\ UNCHANGED <<line, resultado, start_time, reloj, entradas, stdout, stderr,
                   historial, fn_args, fn_ret>>

\* Lines 181-187: the inner handler writes the error block to stderr; a write
\* that raises is caught by the outer handler.
Interno ==
    /\ pc = "interno"
    /\ \E entregado \in BOOLEAN :
        /\ stderr' = Append(stderr, [peticion |-> Peticion, manejador |-> "interno",
                                     error |-> excepcion, entregado |-> entregado])
        /\ IF entregado
           THEN pc' = "leer" /\ UNCHANGED excepcion
           ELSE /\ pc' = "externo"
                /\ excepcion' = [clase |-> "OSError", origen |-> "stderr"]
    /\ UNCHANGED <<line, resultado, start_time, reloj, entradas, stdout, historial,
                   fn_args, fn_ret>>

\* Lines 189-195: the outer handler writes its own block; a write that raises
\* here leaves main.
Externo ==
    /\ pc = "externo"
    /\ \E entregado \in BOOLEAN :
        /\ stderr' = Append(stderr, [peticion |-> Peticion, manejador |-> "externo",
                                     error |-> excepcion, entregado |-> entregado])
        /\ pc' = IF entregado THEN "pausa_error" ELSE "terminado"
    /\ UNCHANGED <<line, resultado, start_time, excepcion, reloj, entradas, stdout,
                   historial, fn_args, fn_ret>>

\* Line 196: time.sleep(1), then the loop continues.
PausaError ==
    /\ pc = "pausa_error"
    /\ pc' = "leer"
    /\ UNCHANGED <<line, resultado, start_time, excepcion, reloj, entradas, stdout,
                   stderr, historial, fn_args, fn_ret>>

main ==
    \/ Leer
    \/ PausaVacia
    \/ Procesar
    \/ Escribir
    \/ Flush
    \/ Interno
    \/ Externo
    \/ PausaError

Init ==
    /\ InitMain
    /\ fn_args = Ninguno
    /\ fn_ret = Ninguno

Next == main

Spec == Init /\ [][Next]_vars

\* ======================================================== properties
\* ------------------------------------------------ of procesar_imagen
\* The return of the call under study, when it has returned a result.
Devuelto == fn_ret # Ninguno /\ fn_ret.ok

\* C1: for every decodable image the final grass mask and the final soil
\* mask are disjoint: no pixel is nonzero in both.
C1_MascarasDisjuntas ==
    Devuelto =>
        \A p \in DOMAIN fn_ret.mascaras.mascara_pasto_final :
            ~ /\ fn_ret.mascaras.mascara_pasto_final[p] # 0
              /\ fn_ret.mascaras.mascara_tierra_final[p] # 0

\* C2: for every decodable image grass + soil <= 100 and other >= 0, and
\* each of the three reported fractions lies in [0, 100].
C2_FraccionesAcotadas ==
    Devuelto =>
        LET r == fn_ret.response
        IN  /\ countNonZero(fn_ret.mascaras.mascara_pasto_final)
                + countNonZero(fn_ret.mascaras.mascara_tierra_final)
                    <= fn_ret.total_pixels
            /\ r.pasto.cent + r.tierra.cent <= 10000
            /\ r.otros.cent >= 0
            /\ \A x \in {r.pasto, r.tierra, r.otros} : x.cent \in 0 .. 10000

\* C7: at every pixel the fused grass mask is the raw grass-colour mask AND
\* the vegetation-index mask, and the fused soil mask is the raw soil-colour
\* mask AND NOT the fused grass mask.
C7_Fusion ==
    Devuelto =>
        LET m == fn_ret.mascaras
        IN  \A p \in DOMAIN m.pasto_fusion :
                /\ m.pasto_fusion[p] =
                      (IF /\ m.crudas.mascara_pasto_color[p] # 0
                          /\ m.crudas.mascara_vegetacion_vi[p] # 0
                       THEN 255 ELSE 0)
                /\ m.tierra_fusion[p] =
                      (IF /\ m.crudas.mascara_tierra_color[p] # 0
                          /\ m.pasto_fusion[p] = 0
                       THEN 255 ELSE 0)

\* A pixel in both raw colour masks that is not vegetation-index-positive: it
\* is not grass and stays soil; and a pixel of grass in the same image.
C7_PixelAmbiguo ==
    /\ Devuelto
    /\ LET m == fn_ret.mascaras
       IN  /\ \E p \in DOMAIN m.pasto_fusion :
                /\ m.crudas.mascara_pasto_color[p] # 0
                /\ m.crudas.mascara_tierra_color[p] # 0
                /\ m.crudas.mascara_vegetacion_vi[p] = 0
                /\ m.pasto_fusion[p] = 0
                /\ m.tierra_fusion[p] = 255
           /\ \E p \in DOMAIN m.pasto_fusion : m.pasto_fusion[p] = 255

\* Nonzero pixels of a mask, counted from the mask itself.
NoNulos(mask) == Cardinality({p \in DOMAIN mask : mask[p] > 0})

\* C9 as stated: the reported other fraction equals 100 minus the reported
\* grass fraction minus the reported soil fraction, clamped at 0.
C9_SumaExacta ==
    Devuelto =>
        LET r == fn_ret.response
        IN  r.otros.cent = Max2(0, 10000 - r.pasto.cent - r.tierra.cent)

\* C9 amended: each reported fraction is the 2-decimal rounding of its
\* measured fraction, 100 x nonzero count / total (0 for a total of 0); the
\* other fraction is measured as 100 minus the measured grass and soil
\* fractions, clamped at 0, before rounding; so the reported other fraction is
\* within 0.01 of 100 minus the reported grass and soil fractions, clamped.
C9_OtrosRedondeado ==
    /\ porcentaje_mascara(<< >>, 0) = Entero(0)
    /\ Devuelto =>
        LET r == fn_ret.response
            total == fn_ret.total_pixels
            n_pasto == NoNulos(fn_ret.mascaras.mascara_pasto_final)
            n_tierra == NoNulos(fn_ret.mascaras.mascara_tierra_final)
        IN  /\ r.pasto.cent = RedondeoPar(n_pasto * 10000, total)
            /\ r.tierra.cent = RedondeoPar(n_tierra * 10000, total)
            /\ r.otros.cent =
                    RedondeoPar(Max2(0, total - n_pasto - n_tierra) * 10000, total)
            /\ Abs(r.otros.cent - Max2(0, 10000 - r.pasto.cent - r.tierra.cent)) <= 1

\* A result whose three reported fractions do not sum to 100 though nothing
\* was clamped.
C9_SumaConRedondeo ==
    /\ Devuelto
    /\ fn_ret.response.pasto.cent + fn_ret.response.tierra.cent < 10000
    /\ fn_ret.response.pasto.cent + fn_ret.response.tierra.cent
        + fn_ret.response.otros.cent # 10000


\* ---------------------------------------------------------- of main
\* The request lines that cannot be decoded: bad base64 padding, no bytes,
\* or bytes that are no image.
NoDecodificable(l) ==
    \/ ~l.b64.relleno_ok
    \/ l.b64.bytes.tipo \in {"vacio", "basura"}

\* Request k is over: main is past its handlers.
Atendida(k) == k < Peticion \/ pc \in {"leer", "pausa_vacia"}

\* A success line of request k was accepted whole by stdout.
LineaDeExito(k) ==
    \E i \in DOMAIN stdout : stdout[i].peticion = k /\ stdout[i].entregado = "linea"

\* An error block of request k reached stderr.
BloqueDeError(k) ==
    \E i \in DOMAIN stderr : stderr[i].peticion = k /\ stderr[i].entregado

\* C3: for every request line read, exactly one response is emitted, a
\* success line on stdout or an error block on stderr, never both and never
\* neither; once a stage of the request has failed there is no success line
\* of that request on stdout.
C3_UnaRespuesta ==
    \A k \in DOMAIN entradas :
        entradas[k] # Ninguno =>
            /\ Atendida(k) => (LineaDeExito(k) <=> ~BloqueDeError(k))
            /\ BloqueDeError(k) => ~LineaDeExito(k)

\* C4: when the payload cannot be base64-decoded or decodes to no image,
\* procesar_imagen raises the decode failure and returns no result, no success
\* line is written, and the inner handler writes the error block of that
\* failure to stderr.
C4_FalloDeDecodificacion ==
    \A k \in DOMAIN entradas :
        (entradas[k] # Ninguno /\ NoDecodificable(entradas[k])) =>
            /\ \A i \in DOMAIN stdout : stdout[i].peticion # k
            /\ \A i \in DOMAIN historial : historial[i].peticion # k
            /\ (k = Peticion /\ pc = "interno") =>
                    /\ excepcion.clase = "ValueError"
                    /\ excepcion.origen = "decodificacion"
            /\ (k < Peticion \/ pc \notin {"procesar", "interno"}) =>
                    \E i \in DOMAIN stderr :
                        /\ stderr[i].peticion = k
                        /\ stderr[i].manejador = "interno"
                        /\ stderr[i].error.clase = "ValueError"
                        /\ stderr[i].error.origen = "decodificacion"

\* A payload that decodes to no image was answered by an error block on
\* stderr and the loop is reading again.
C4_ImagenNulaInformada ==
    /\ pc = "leer"
    /\ \E k \in DOMAIN entradas :
        /\ entradas[k] # Ninguno
        /\ entradas[k].b64.relleno_ok
        /\ entradas[k].b64.bytes.tipo = "basura"
        /\ \E i \in DOMAIN stderr :
            /\ stderr[i].peticion = k
            /\ stderr[i].entregado
            /\ stderr[i].error.motivo = "Imagen nula"

\* C5: no per-request error terminates the request loop: main is never left.
C5_BucleSigue == pc # "terminado"

\* The three fractions of a response.
Fracciones(response) == <<response.pasto, response.tierra, response.otros>>

C10_PequenosObjetos ==
    fn_ret # Ninguno =>
        LET mask == fn_args.mask
            total == fn_args.alto * fn_args.ancho
            milesimas == IF fn_args.clase = "pasto" THEN 1 ELSE 5
        IN  /\ DOMAIN fn_ret = DOMAIN mask
            /\ \A p \in DOMAIN mask : mask[p] = 0 => fn_ret[p] = 0
            /\ \A C \in connectedComponents(mask) :
                \A p \in C :
                    fn_ret[p] = (IF Cardinality(C) * 1000 < milesimas * total
                                 THEN 0 ELSE mask[p])

\* A mask of which one component was zeroed and another was kept.
C10_UnoBorradoOtroNo ==
    /\ fn_ret # Ninguno
    /\ \E p, q \in DOMAIN fn_args.mask :
        /\ fn_args.mask[p] # 0 /\ fn_ret[p] = 0
        /\ fn_args.mask[q] # 0 /\ fn_ret[q] # 0

\* --------------------------------------------- of the result assembly
\* C6: a result longer than 1,000,000 characters with the quality-85 overlay
\* carries the quality-65 encoding of the same composite instead and is
\* shorter; otherwise the quality-85 overlay is returned; the percentages and
\* the timestamp are the same in both cases.
C6_Presupuesto ==
    fn_ret # Ninguno =>
        LET bytes85 == fn_args.img_final.detalle
            bytes65 == (fn_args.img_final.detalle * 65) \div 85
            uri(bytes) == 23 + 4 * ((bytes + 2) \div 3)
            largo(bytes) ==
                70 + NumChars(fn_ret.pasto) + NumChars(fn_ret.tierra)
                   + NumChars(fn_ret.otros) + uri(bytes) + fn_args.ahora.cifras
        IN  /\ largo(bytes85) > 1000000 =>
                /\ fn_ret.overlay_image = [calidad |-> 65, largo |-> uri(bytes65)]
                /\ JsonLen(fn_ret) = largo(bytes65)
                /\ JsonLen(fn_ret) < largo(bytes85)
            /\ largo(bytes85) <= 1000000 =>
                /\ fn_ret.overlay_image = [calidad |-> 85, largo |-> uri(bytes85)]
                /\ JsonLen(fn_ret) = largo(bytes85)
            /\ fn_ret.pasto = round2(fn_args.porc_pasto)
            /\ fn_ret.tierra = round2(fn_args.porc_tierra)
            /\ fn_ret.otros =
                    round2(Max0(Resto(fn_args.porc_pasto, fn_args.porc_tierra)))
            /\ fn_ret.timestamp = fn_args.ahora

\* A result one character over the budget, returned with the quality-65
\* overlay.
C6_Sustituido ==
    /\ fn_ret # Ninguno
    /\ fn_ret.overlay_image.calidad = 65
    /\ 70 + NumChars(fn_ret.pasto) + NumChars(fn_ret.tierra) + NumChars(fn_ret.otros)
          + 23 + 4 * ((fn_args.img_final.detalle + 2) \div 3)
          + fn_args.ahora.cifras = 1000001


=============================================================================
